---- MODULE Spec2Model ----
(***************************************************************************)
(* Model of obsidian-graph-wallpaper.py: the wikilink graph builder, the   *)
(* edge weighting / layout partition of draw_graph_and_save, the           *)
(* minimum-distance relaxation, and the watcher that re-runs the pipeline. *)
(*                                                                         *)
(* Text (file names, note contents, link targets) is a sequence of         *)
(* one-character strings.                                                  *)
(***************************************************************************)
EXTENDS Integers, Sequences, FiniteSets, TLC

VARIABLES
    vault,        \* file_dict: file name -> content of the file
    processed,    \* file names the loop of build_vault_graph has already visited
    G,            \* the networkx graph, as its adjacency: node -> set of neighbours
    pc,           \* position inside update_wallpaper for the single-run specification
    printed,      \* the node names print_self_loops has listed
    weight,       \* edge -> G[u][v]['weight']
    pos_keys,     \* the keys of the position map pos of draw_graph_and_save
    node_sizes,   \* node -> node size used for drawing
    mainPc,       \* position of the main thread in the __main__ block
    obsPc,        \* state of the observer (dispatch) thread
    run,          \* thread -> position inside update_wallpaper
    queue,        \* the observer's event queue (event ids, oldest first)
    emitted,      \* number of change events put on the queue so far
    completed,    \* events whose on_any_event ran update_wallpaper to the end
    handling,     \* event the observer thread is handling (0 = none)
    readable,     \* whether every note of the watched vault decodes as UTF-8
    pos,          \* enforce_min_distance: node index -> <<x, y>>
    it,           \* enforce_min_distance: passes started so far
    i,            \* enforce_min_distance: outer loop index
    j,            \* enforce_min_distance: inner loop index
    moved,        \* enforce_min_distance: the flag of the current pass
    epc           \* enforce_min_distance: "loop", "done", or "off"

vars == <<vault, processed, G, pc, printed, weight, pos_keys, node_sizes,
          mainPc, obsPc, run, queue, emitted, completed, handling, readable,
          pos, it, i, j, moved, epc>>

buildVars == <<vault, processed, G, pc, printed, weight, pos_keys, node_sizes>>
watchVars == <<mainPc, obsPc, run, queue, emitted, completed, handling, readable>>
enforceVars == <<pos, it, i, j, moved, epc>>

-----------------------------------------------------------------------------
(* Text helpers: str.lower, str.endswith, str.strip, re.split, re.findall  *)

Whitespace == {" ", "\t", "\n"}

DotMd == <<".", "m", "d">>

LowerChar(c) ==
    CASE c = "A" -> "a" [] c = "B" -> "b" [] c = "C" -> "c" [] c = "D" -> "d"
      [] c = "G" -> "g" [] c = "M" -> "m" [] OTHER -> c

Lower(s) == [k \in 1..Len(s) |-> LowerChar(s[k])]

EndsWith(s, suffix) ==
    /\ Len(s) >= Len(suffix)
    /\ SubSeq(s, Len(s) - Len(suffix) + 1, Len(s)) = suffix

\* line 41 (and 169): name.lower().endswith(".md")
IsNote(name) == EndsWith(Lower(name), DotMd)

Contains(s, c) == \E k \in 1..Len(s) : s[k] = c

Min(S) == CHOOSE x \in S : \A y \in S : x <= y
Max(S) == CHOOSE x \in S : \A y \in S : x >= y

\* index of the first "]" at or after k, 0 when there is none
FirstClose(s, k) ==
    LET closes == {m \in k..Len(s) : s[m] = "]"}
    IN  IF closes = {} THEN 0 ELSE Min(closes)

\* wikilink_pattern.findall(content) for the pattern \[\[([^\]]+)\]\] :
\* leftmost non-overlapping matches, scanning from index k
RECURSIVE FindAllFrom(_, _)
FindAllFrom(s, k) ==
    IF k + 1 > Len(s) THEN <<>>
    ELSE IF s[k] = "[" /\ s[k + 1] = "["
         THEN LET c == FirstClose(s, k + 2)
              IN  IF c > k + 2 /\ c + 1 <= Len(s) /\ s[c + 1] = "]"
                  THEN <<SubSeq(s, k + 2, c - 1)>> \o FindAllFrom(s, c + 2)
                  ELSE FindAllFrom(s, k + 1)
         ELSE FindAllFrom(s, k + 1)

FindAll(s) == FindAllFrom(s, 1)

\* re.split(r"[#|]", link)[0]
SplitFirst(link) ==
    LET cuts == {k \in 1..Len(link) : link[k] \in {"#", "|"}}
    IN  IF cuts = {} THEN link ELSE SubSeq(link, 1, Min(cuts) - 1)

\* str.strip()
Strip(s) ==
    LET solid == {k \in 1..Len(s) : s[k] \notin Whitespace}
    IN  IF solid = {} THEN <<>> ELSE SubSeq(s, Min(solid), Max(solid))

\* faulty variant of LinkClean: the .strip() is forgotten
LinkCleanNoStrip(link) ==
    LET cut == SplitFirst(link)
    IN  IF Contains(cut, ".") THEN cut ELSE cut \o DotMd

\* lines 52-54: link_clean
LinkClean(link) ==
    LET cut == Strip(SplitFirst(link))
    IN  IF Contains(cut, ".") THEN cut ELSE cut \o DotMd

-----------------------------------------------------------------------------
(* networkx.Graph, as the adjacency it stores                              *)

EmptyGraph == <<>>

HasNode(g, n) == n \in DOMAIN g

AddNode(g, n) == IF n \in DOMAIN g THEN g ELSE g @@ (n :> {})

\* G.add_edge(u, v): both endpoints are created when missing
AddEdge(g, u, v) ==
    LET g1 == AddNode(AddNode(g, u), v)
    IN  [n \in DOMAIN g1 |->
            IF n = u THEN g1[n] \cup {v}
            ELSE IF n = v THEN g1[n] \cup {u}
            ELSE g1[n]]

HasEdge(g, u, v) == u \in DOMAIN g /\ v \in g[u]

\* faulty variant of Degree: a self-loop is not counted
DegreeNoSelfLoop(g, n) == Cardinality(g[n] \ {n})

\* G.degree(n): the neighbours, a self-loop counted twice
Degree(g, n) == Cardinality(g[n]) + (IF n \in g[n] THEN 1 ELSE 0)

\* G.remove_nodes_from(ns): the nodes and every edge at them
RemoveNodesFrom(g, ns) == [n \in DOMAIN g \ ns |-> g[n] \ ns]

\* G.edges(): each edge once, as the set of its endpoints ({n} is a self-loop)
Edges(g) == UNION {{{u, v} : v \in g[u]} : u \in DOMAIN g}

-----------------------------------------------------------------------------
(* The inputs: a vault is the dictionary file_dict of lines 34-38, file     *)
(* name -> content.  "0xFF" stands for a byte that is not valid UTF-8.      *)

A_md == <<"A", ".", "m", "d">>
B_md == <<"B", ".", "m", "d">>
b_MD == <<"b", ".", "M", "D">>
C_png == <<"C", ".", "p", "n", "g">>

FileNames == {A_md, B_md, b_MD, C_png}

\* (empty note)
TextNone == <<>>
\* [[B]]
TextB == <<"[", "[", "B", "]", "]">>
\* [[C.png]]
TextPng == <<"[", "[", "C", ".", "p", "n", "g", "]", "]">>
\* [[A]]
TextA == <<"[", "[", "A", "]", "]">>
\* [[ B|x]][[G]]
TextAliasGhost == <<"[", "[", " ", "B", "|", "x", "]", "]", "[", "[", "G", "]", "]">>
\* [[A#h]]-[[B]][[B]]
TextRepeat == <<"[", "[", "A", "#", "h", "]", "]", "-", "[", "[", "B", "]", "]", "[", "[", "B", "]", "]">>
\* [[[A]] [[B]
TextBroken == <<"[", "[", "[", "A", "]", "]", " ", "[", "[", "B", "]">>
\* [[b.MD]][[b]]
TextCase == <<"[", "[", "b", ".", "M", "D", "]", "]", "[", "[", "b", "]", "]">>
\* [[]][[B.md]]
TextExt == <<"[", "[", "]", "]", "[", "[", "B", ".", "m", "d", "]", "]">>

BinaryData == <<"0xFF">>

NoteTexts == {TextNone, TextB, TextPng, TextA, TextAliasGhost, TextRepeat, TextBroken, TextCase, TextExt}

\* largest number of files in a vault
MaxFiles == 3

Vaults ==
    UNION {{v \in [fs -> NoteTexts \cup {BinaryData}] :
                \A f \in fs : ~IsNote(f) => v[f] = BinaryData} :
           fs \in {s \in SUBSET FileNames : Cardinality(s) <= MaxFiles}}

\* line 47-48: open(..., encoding="utf-8") / f.read() succeed
Decodable(content) == ~Contains(content, "0xFF")

-----------------------------------------------------------------------------
(* build_vault_graph                                                       *)

\* lines 51-59: the loop over the links of one note
RECURSIVE AddLinks(_, _, _, _)
AddLinks(g, md_name, links, file_dict) ==
    IF links = <<>> THEN g
    ELSE LET link_clean == LinkClean(Head(links))
             g1 == IF link_clean \in file_dict
                   THEN AddEdge(AddNode(g, link_clean), md_name, link_clean)
                   ELSE g
         IN  AddLinks(g1, md_name, Tail(links), file_dict)

\* faulty variant of Orphans: nothing is pruned
OrphansNone(g) == {}

\* line 62: orphans
Orphans(g) == {n \in DOMAIN g : Degree(g, n) = 0}

\* line 98: self_loops
SelfLoops(g) == {n \in DOMAIN g : HasEdge(g, n, n)}

\* the values the other specifications' variables keep in this one
WatchOff ==
    /\ mainPc = "off" /\ obsPc = "off" /\ run = <<>> /\ queue = <<>>
    /\ emitted = 0 /\ completed = {} /\ handling = 0 /\ readable = TRUE

EnforceOff ==
    /\ pos = <<>> /\ it = 0 /\ i = 0 /\ j = 0 /\ moved = FALSE /\ epc = "off"

BuildOff ==
    /\ vault = <<>> /\ processed = {} /\ G = EmptyGraph /\ pc = "off"
    /\ printed = {} /\ weight = <<>> /\ pos_keys = {} /\ node_sizes = <<>>

\* update_wallpaper is entered: file_dict is filled (lines 34-38), G is empty (line 32)
Init ==
    /\ vault \in Vaults
    /\ processed = {}
    /\ G = EmptyGraph
    /\ pc = "build"
    /\ printed = {}
    /\ weight = <<>>
    /\ pos_keys = {}
    /\ node_sizes = <<>>
    /\ WatchOff
    /\ EnforceOff

\* lines 40-59: one iteration of the loop over file_dict.items(); the order of
\* the dictionary is the order os.walk met the files in
ProcessFile ==
    /\ pc = "build"
    /\ \E md_name \in DOMAIN vault \ processed :
          /\ processed' = processed \cup {md_name}
          /\ IF ~IsNote(md_name)
             THEN UNCHANGED <<G, pc>>
             ELSE IF ~Decodable(vault[md_name])
                  THEN /\ G' = AddNode(G, md_name)
                       /\ pc' = "raised"
                  ELSE /\ G' = AddLinks(AddNode(G, md_name), md_name,
                                        FindAll(vault[md_name]), DOMAIN vault)
                       /\ UNCHANGED pc
    /\ UNCHANGED <<vault, printed, weight, pos_keys, node_sizes>>
    /\ UNCHANGED <<watchVars, enforceVars>>

\* lines 61-65: the orphans are removed and G is returned
RemoveOrphans ==
    /\ pc = "build"
    /\ processed = DOMAIN vault
    /\ G' = RemoveNodesFrom(G, Orphans(G))
    /\ pc' = "print"
    /\ UNCHANGED <<vault, processed, printed, weight, pos_keys, node_sizes>>
    /\ UNCHANGED <<watchVars, enforceVars>>

\* lines 94-104
PrintSelfLoops ==
    /\ pc = "print"
    /\ printed' = SelfLoops(G)
    /\ pc' = "weight"
    /\ UNCHANGED <<vault, processed, G, weight, pos_keys, node_sizes>>
    /\ UNCHANGED <<watchVars, enforceVars>>

-----------------------------------------------------------------------------
(* draw_graph_and_save                                                     *)

LeafWeight == 5
DefaultWeight == 1

\* faulty variant of IsLeafEdge: both endpoints must be leaves
IsLeafEdgeBoth(g, e) == \A n \in e : Degree(g, n) = 1

\* line 125
IsLeafEdge(g, e) == \E n \in e : Degree(g, n) = 1

\* line 131
Isolates(g) == {n \in DOMAIN g : Degree(g, n) = 0}

\* faulty variant of ConnectedNodes: off by one
ConnectedNodesAboveOne(g) == {n \in DOMAIN g : Degree(g, n) > 1}

\* line 132
ConnectedNodes(g) == {n \in DOMAIN g : Degree(g, n) > 0}

\* lines 123-128: the weighting pass over G.edges()
WeightEdges ==
    /\ pc = "weight"
    /\ weight' = [e \in Edges(G) |->
                    IF IsLeafEdge(G, e) THEN LeafWeight ELSE DefaultWeight]
    /\ pc' = "layout"
    /\ UNCHANGED <<vault, processed, G, printed, pos_keys, node_sizes>>
    /\ UNCHANGED <<watchVars, enforceVars>>

\* lines 130-166: spring_layout places the nodes of H, the ring places the
\* isolates; enforce_min_distance moves positions and keeps the keys
Layout ==
    /\ pc = "layout"
    /\ LET isolates == Isolates(G)
           pos_connected == ConnectedNodes(G)
       IN  pos_keys' = IF isolates # {} THEN pos_connected \cup isolates
                       ELSE pos_connected
    /\ pc' = "render"
    /\ UNCHANGED <<vault, processed, G, printed, weight, node_sizes>>
    /\ UNCHANGED <<watchVars, enforceVars>>

\* lines 168-233: sizes, drawing (pos[n] is looked up for every node) and savefig
Render ==
    /\ pc = "render"
    /\ IF DOMAIN G \subseteq pos_keys
       THEN /\ node_sizes' = [n \in DOMAIN G |-> 10 + Degree(G, n) * 3]
            /\ pc' = "set"
       ELSE /\ pc' = "raised"
            /\ UNCHANGED node_sizes
    /\ UNCHANGED <<vault, processed, G, printed, weight, pos_keys>>
    /\ UNCHANGED <<watchVars, enforceVars>>

\* lines 239-240
SetWallpaper ==
    /\ pc = "set"
    /\ pc' = "done"
    /\ UNCHANGED <<vault, processed, G, printed, weight, pos_keys, node_sizes>>
    /\ UNCHANGED <<watchVars, enforceVars>>

Next ==
    \/ ProcessFile
    \/ RemoveOrphans
    \/ PrintSelfLoops
    \/ WeightEdges
    \/ Layout
    \/ Render
    \/ SetWallpaper

Spec == Init /\ [][Next]_vars

-----------------------------------------------------------------------------
(* Properties of one run of the pipeline (specification Spec)              *)

\* build_vault_graph has returned G
Returned == pc \in {"print", "weight", "layout", "render", "set", "done"}

\* s[a..a+1] = "[[", s[b..b+1] = "]]", at least one character between them
\* and no "]" among those characters
MatchAt(s, a, b) ==
    /\ b >= a + 3
    /\ b + 1 <= Len(s)
    /\ s[a] = "[" /\ s[a + 1] = "["
    /\ s[b] = "]" /\ s[b + 1] = "]"
    /\ \A m \in (a + 2)..(b - 1) : s[m] # "]"

\* the [[...]] links of a text: for each closing pair the leftmost opening pair
LinkTexts(s) ==
    {SubSeq(s, p[1] + 2, p[2] - 1) :
        p \in {q \in (1..Len(s)) \X (1..Len(s)) :
                 /\ MatchAt(s, q[1], q[2])
                 /\ \A a \in 1..(q[1] - 1) : ~MatchAt(s, a, q[2])}}

\* t is raw cut at its first "#" or "|", trimmed, ".md" appended when it has no "."
IsNormalizedTarget(raw, t) ==
    \E c \in 0..Len(raw), a \in 0..Len(raw), b \in 0..Len(raw) :
        /\ \A m \in 1..c : raw[m] \notin {"#", "|"}
        /\ c = Len(raw) \/ raw[c + 1] \in {"#", "|"}
        /\ a + b <= c
        /\ \A m \in 1..a : raw[m] \in Whitespace
        /\ \A m \in (c - b + 1)..c : raw[m] \in Whitespace
        /\ a + b < c => (raw[a + 1] \notin Whitespace /\ raw[c - b] \notin Whitespace)
        /\ LET core == SubSeq(raw, a + 1, c - b)
           IN  t = IF Contains(core, ".") THEN core ELSE core \o DotMd

\* note S of vault v has a link whose normalized target is the file T of v
LinksTo(v, S, T) ==
    /\ S \in DOMAIN v /\ T \in DOMAIN v
    /\ IsNote(S)
    /\ \E raw \in LinkTexts(v[S]) : IsNormalizedTarget(raw, T)

ExpectedEdges(v) ==
    {e \in {{S, T} : S \in DOMAIN v, T \in DOMAIN v} :
        \E S \in e, T \in e : e = {S, T} /\ LinksTo(v, S, T)}

\* C1: the edge set of the returned graph is exactly the set of unordered
\* pairs {S, T} with S a note (name ending in .md, any case) whose text has a
\* [[...]] link with normalized target T, T a key of the file set (exact
\* match); unresolved links add no node and no edge, repeated and reversed
\* links give one edge.
C1_EdgesAreResolvedLinks ==
    Returned =>
        /\ Edges(G) = ExpectedEdges(vault)
        /\ DOMAIN G \subseteq DOMAIN vault

\* A.md: [[ B|x]][[G]] (alias, padding, link to a missing note);
\* B.md: [[A#h]]-[[B]][[B]] (reversed link, repeated self-link)
C1_Witness ==
    /\ pc = "done"
    /\ vault = (A_md :> TextAliasGhost) @@ (B_md :> TextRepeat)
    /\ Edges(G) = {{A_md, B_md}, {B_md}}

\* C2: a note whose content cannot be decoded as UTF-8 is treated as a note
\* with no links: the build does not raise and the pipeline goes on.
C2_UnreadableNoteDoesNotRaise ==
    (\E f \in DOMAIN vault : IsNote(f) /\ ~Decodable(vault[f])) => pc # "raised"

\* number of edges of g that reference n
EdgeCount(g, n) == Cardinality({e \in Edges(g) : n \in e})

\* C6: the degree the code reports for a node equals the number of edges
\* that reference the node, which is its number of distinct neighbours.
C6_DegreeIsEdgeCount ==
    Returned =>
        \A n \in DOMAIN G :
            /\ Degree(G, n) = EdgeCount(G, n)
            /\ Degree(G, n) = Cardinality(G[n])

\* number of edge ends at n: an edge {n, m} has one, a self-loop {n} has two
EdgeEnds(g, n) ==
    Cardinality({e \in Edges(g) : n \in e}) + Cardinality({e \in Edges(g) : e = {n}})

C8_SelfLoopKeptAndListed ==
    /\ Returned =>
          \A S \in DOMAIN vault :
              LinksTo(vault, S, S) => (S \in DOMAIN G /\ {S} \in Edges(G))
    /\ pc \in {"weight", "layout", "render", "set", "done"} =>
          /\ printed = {n \in DOMAIN G : {n} \in Edges(G)}
          /\ printed = {S \in DOMAIN vault : LinksTo(vault, S, S)}

\* the only file is A.md, and its only link is [[A]]
C8_Witness ==
    /\ pc = "done"
    /\ vault = (A_md :> TextA)
    /\ DOMAIN G = {A_md}
    /\ Edges(G) = {{A_md}}
    /\ printed = {A_md}

\* C9: the returned graph has no node without an incident edge: its nodes
\* are exactly the endpoints of its edges, a note that neither links to a
\* file nor is linked from a note is not in it, and the isolated set of the
\* layout is empty.
C9_NoIsolatedNode ==
    Returned =>
        /\ DOMAIN G = UNION Edges(G)
        /\ \A f \in DOMAIN vault :
              (\A T \in DOMAIN vault : ~LinksTo(vault, f, T) /\ ~LinksTo(vault, T, f))
                  => f \notin DOMAIN G
        /\ Isolates(G) = {}

\* B.md links nowhere and nothing links to it, A.md links to the attachment
C9_Witness ==
    /\ pc = "done"
    /\ vault = (A_md :> TextPng) @@ (B_md :> TextBroken) @@ (C_png :> BinaryData)
    /\ DOMAIN G = {A_md, C_png}

\* C10: both endpoints of every edge of the returned graph are nodes of it,
\* and the position map has an entry for every node.
C10_NoDanglingEdgeAndPosCovers ==
    /\ Returned =>
          /\ \A n \in DOMAIN G : G[n] \subseteq DOMAIN G
          /\ \A e \in Edges(G) : e \subseteq DOMAIN G
    /\ pc \in {"render", "set", "done"} => DOMAIN G \subseteq pos_keys

\* an orphan (b.MD) was removed, and the two remaining nodes have positions
C10_Witness ==
    /\ pc = "done"
    /\ vault = (A_md :> TextB) @@ (B_md :> TextNone) @@ (b_MD :> TextNone)
    /\ Edges(G) = {{A_md, B_md}}
    /\ pos_keys = {A_md, B_md}

-----------------------------------------------------------------------------
(* The __main__ block and the watcher: the main thread, the observer's      *)
(* dispatch thread that calls on_any_event for one queued event at a time,  *)
(* and file changes under VAULT_PATH that the emitter puts on the queue.    *)
(* A run of update_wallpaper is the sequence build, print, draw (savefig    *)
(* writes OUTPUT_IMAGE while the run is at "saving"), set.                  *)

Threads == {"main", "observer"}

\* largest number of change events delivered to the observer
MaxEvents == 3

Range(q) == {q[k] : k \in 1..Len(q)}

\* whether the vault the run reads makes build_vault_graph raise (lines 47-48):
\* some note is not decodable
BuildRaises == ~readable

\* the observer is started and not stopped: its emitter queues events and its
\* dispatch thread, when alive, takes them
Watching == obsPc # "unstarted" /\ mainPc \notin {"join", "exit", "crashed"}

WatchInit ==
    /\ mainPc = "update"
    /\ obsPc = "unstarted"
    /\ run = [t \in Threads |-> IF t = "main" THEN "build" ELSE "none"]
    /\ queue = <<>>
    /\ emitted = 0
    /\ completed = {}
    /\ handling = 0
    /\ readable \in BOOLEAN
    /\ BuildOff
    /\ EnforceOff

\* the thread's uncaught exception ends it (the main thread ends the process)
Die(t) ==
    /\ run' = [run EXCEPT ![t] = "none"]
    /\ IF t = "main"
       THEN mainPc' = "crashed" /\ UNCHANGED obsPc
       ELSE obsPc' = "dead" /\ UNCHANGED mainPc

\* line 236
RunBuild(t) ==
    /\ run[t] = "build"
    /\ mainPc # "crashed"
    /\ IF BuildRaises
       THEN Die(t)
       ELSE run' = [run EXCEPT ![t] = "print"] /\ UNCHANGED <<mainPc, obsPc>>
    /\ UNCHANGED <<queue, emitted, completed, handling, readable>>
    /\ UNCHANGED <<buildVars, enforceVars>>

\* line 237
RunPrint(t) ==
    /\ run[t] = "print"
    /\ mainPc # "crashed"
    /\ run' = [run EXCEPT ![t] = "draw"]
    /\ UNCHANGED <<mainPc, obsPc, queue, emitted, completed, handling, readable>>
    /\ UNCHANGED <<buildVars, enforceVars>>

\* line 238, up to savefig opening OUTPUT_IMAGE (line 232)
RunDraw(t) ==
    /\ run[t] = "draw"
    /\ mainPc # "crashed"
    /\ run' = [run EXCEPT ![t] = "saving"]
    /\ UNCHANGED <<mainPc, obsPc, queue, emitted, completed, handling, readable>>
    /\ UNCHANGED <<buildVars, enforceVars>>

\* lines 232-233: the image is written
RunSave(t) ==
    /\ run[t] = "saving"
    /\ mainPc # "crashed"
    /\ run' = [run EXCEPT ![t] = "set"]
    /\ UNCHANGED <<mainPc, obsPc, queue, emitted, completed, handling, readable>>
    /\ UNCHANGED <<buildVars, enforceVars>>

\* lines 239-240, and the return to the caller: line 248 or on_any_event
RunSet(t) ==
    /\ run[t] = "set"
    /\ mainPc # "crashed"
    /\ run' = [run EXCEPT ![t] = "none"]
    /\ IF t = "main"
       THEN /\ mainPc' = "schedule"
            /\ UNCHANGED <<obsPc, completed, handling>>
       ELSE /\ obsPc' = "wait"
            /\ completed' = completed \cup {handling}
            /\ handling' = 0
            /\ UNCHANGED mainPc
    /\ UNCHANGED <<queue, emitted, readable>>
    /\ UNCHANGED <<buildVars, enforceVars>>

\* lines 249-251
MainSchedule ==
    /\ mainPc = "schedule"
    /\ mainPc' = "start"
    /\ UNCHANGED <<obsPc, run, queue, emitted, completed, handling, readable>>
    /\ UNCHANGED <<buildVars, enforceVars>>

\* faulty variant of MainStart: observer.start() is called before the initial
\* update_wallpaper() has returned
MainStartEarly ==
    /\ \/ /\ mainPc = "update"
          /\ obsPc = "unstarted"
          /\ UNCHANGED mainPc
       \/ /\ mainPc = "start"
          /\ mainPc' = "loop"
    /\ obsPc' = IF obsPc = "unstarted" THEN "wait" ELSE obsPc
    /\ UNCHANGED <<run, queue, emitted, completed, handling, readable>>
    /\ UNCHANGED <<buildVars, enforceVars>>

\* line 252: observer.start(), then the sleep loop of lines 254-257
MainStart ==
    /\ mainPc = "start"
    /\ mainPc' = "loop"
    /\ obsPc' = "wait"
    /\ UNCHANGED <<run, queue, emitted, completed, handling, readable>>
    /\ UNCHANGED <<buildVars, enforceVars>>

\* lines 258-259: Ctrl+C, observer.stop()
MainInterrupt ==
    /\ mainPc = "loop"
    /\ mainPc' = "join"
    /\ UNCHANGED <<obsPc, run, queue, emitted, completed, handling, readable>>
    /\ UNCHANGED <<buildVars, enforceVars>>

\* line 260: observer.join() returns once the dispatch thread has ended
MainJoin ==
    /\ mainPc = "join"
    /\ obsPc \in {"stopped", "dead"}
    /\ mainPc' = "exit"
    /\ UNCHANGED <<obsPc, run, queue, emitted, completed, handling, readable>>
    /\ UNCHANGED <<buildVars, enforceVars>>

\* a file of the vault changes before the observer is started: no event
ChangeUnwatched ==
    /\ obsPc = "unstarted"
    /\ mainPc # "crashed"
    /\ readable' = ~readable
    /\ UNCHANGED <<mainPc, obsPc, run, queue, emitted, completed, handling>>
    /\ UNCHANGED <<buildVars, enforceVars>>

\* line 251: a file under VAULT_PATH changes while the observer watches; the
\* change is queued as an event
ChangeSignal ==
    /\ Watching
    /\ emitted < MaxEvents
    /\ emitted' = emitted + 1
    /\ queue' = Append(queue, emitted + 1)
    /\ readable' \in BOOLEAN
    /\ UNCHANGED <<mainPc, obsPc, run, completed, handling>>
    /\ UNCHANGED <<buildVars, enforceVars>>

\* lines 243-245: the dispatch thread takes the oldest event and calls
\* on_any_event, which calls update_wallpaper
ObserverDispatch ==
    /\ obsPc = "wait"
    /\ Watching
    /\ queue # <<>>
    /\ handling' = Head(queue)
    /\ queue' = Tail(queue)
    /\ obsPc' = "handler"
    /\ run' = [run EXCEPT !["observer"] = "build"]
    /\ UNCHANGED <<mainPc, emitted, completed, readable>>
    /\ UNCHANGED <<buildVars, enforceVars>>

\* line 259 seen by the dispatch thread: it ends when it is between events
ObserverExit ==
    /\ obsPc = "wait"
    /\ mainPc = "join"
    /\ obsPc' = "stopped"
    /\ UNCHANGED <<mainPc, run, queue, emitted, completed, handling, readable>>
    /\ UNCHANGED <<buildVars, enforceVars>>

ThreadStep(t) ==
    \/ RunBuild(t)
    \/ RunPrint(t)
    \/ RunDraw(t)
    \/ RunSave(t)
    \/ RunSet(t)

MainStep ==
    \/ ThreadStep("main")
    \/ MainSchedule
    \/ MainStart
    \/ MainJoin

ObserverStep ==
    \/ ThreadStep("observer")
    \/ ObserverDispatch
    \/ ObserverExit

WatchNext ==
    \/ \E t \in Threads : RunBuild(t)
    \/ \E t \in Threads : RunPrint(t)
    \/ \E t \in Threads : RunDraw(t)
    \/ \E t \in Threads : RunSave(t)
    \/ \E t \in Threads : RunSet(t)
    \/ MainSchedule
    \/ MainStart
    \/ MainInterrupt
    \/ MainJoin
    \/ ChangeUnwatched
    \/ ChangeSignal
    \/ ObserverDispatch
    \/ ObserverExit

WatchSpec == WatchInit /\ [][WatchNext]_vars

\* every thread that can take a step eventually takes one; file changes and
\* Ctrl+C are not forced to happen
FairWatchSpec ==
    WatchInit /\ [][WatchNext]_vars /\ WF_vars(MainStep) /\ WF_vars(ObserverStep)

\* C3: no two runs of update_wallpaper are in progress at the same time: the
\* initial run is over before the observer is started, the observer runs
\* one handler at a time while later events wait on the queue, and
\* OUTPUT_IMAGE is written by at most one run.
C3_RunsNeverOverlap ==
    /\ Cardinality({t \in Threads : run[t] # "none"}) <= 1
    /\ Cardinality({t \in Threads : run[t] = "saving"}) <= 1
    /\ obsPc # "unstarted" => run["main"] = "none"
    /\ run["observer"] # "none" => (handling # 0 /\ handling \notin Range(queue))
    /\ \A e \in Range(queue) : e \notin completed

\* a second event arrived while the run for the first one writes the image
C3_Witness ==
    /\ run["observer"] = "saving"
    /\ handling = 1
    /\ queue = <<2>>

\* C4: while the watcher runs, every change signal eventually gets one
\* complete run of the pipeline, whatever happened in earlier runs.
C4_EverySignalGetsARun ==
    \A e \in 1..MaxEvents :
        (e \in Range(queue) \/ handling = e) ~> (e \in completed \/ mainPc \in {"join", "exit"})

-----------------------------------------------------------------------------
(* enforce_min_distance(pos, min_dist=0.05, iterations=15), line 166.       *)
(* Coordinates are fixed-point numbers in units of 0.001; the quotients of  *)
(* lines 85-89 are rounded to the nearest unit.                             *)

\* min_dist = 0.05, in units of 0.001
MinDist == 50
\* iterations = 15
Iterations == 15

\* largest number of nodes in the position map
MaxNodes == 3

\* the coordinates the starting positions are drawn from
XCoords == {0, 20, 40, 100}
YCoords == {0, 30}

\* a / b rounded to the nearest integer, b > 0
RoundDiv(a, b) == (2 * a + b) \div (2 * b)

\* math.sqrt on a fixed-point square: the largest r with r * r <= n
ISqrt(n) == CHOOSE r \in 0..n : r * r <= n /\ n < (r + 1) * (r + 1)

\* dx*dx + dy*dy of line 83
Dist2(p1, p2) ==
    (p2[1] - p1[1]) * (p2[1] - p1[1]) + (p2[2] - p1[2]) * (p2[2] - p1[2])

\* line 84: dist < min_dist and dist > 1e-9 (two fixed-point positions are
\* 1e-9 or less apart only when they are equal)
TooClose(p1, p2) ==
    Dist2(p1, p2) < MinDist * MinDist /\ Dist2(p1, p2) > 0

\* faulty variant of MovedAfter: the flag is not set on a correction
MovedAfterStale(flag, corrected) == flag

\* line 90: moved after the pair has been looked at
MovedAfter(flag, corrected) == flag \/ corrected

\* lines 85-89: the two positions after the push
Pushed(p1, p2) ==
    LET dx == p2[1] - p1[1]
        dy == p2[2] - p1[2]
        dist == ISqrt(dx * dx + dy * dy)
        sx == RoundDiv((MinDist - dist) * dx, 2 * dist)
        sy == RoundDiv((MinDist - dist) * dy, 2 * dist)
    IN  <<  <<p1[1] - sx, p1[2] - sy>>,  <<p2[1] + sx, p2[2] + sy>>  >>

\* the function is entered with a position map: nodes = list(pos.keys())
EnforceInit ==
    /\ \E n \in 2..MaxNodes : pos \in [1..n -> XCoords \X YCoords]
    /\ it = 0
    /\ i = 0
    /\ j = 0
    /\ moved = FALSE
    /\ epc = "pass"
    /\ BuildOff
    /\ WatchOff

\* lines 74-75: the next pass starts, or range(iterations) is used up
StartPass ==
    /\ epc = "pass"
    /\ IF it < Iterations
       THEN /\ it' = it + 1
            /\ moved' = FALSE
            /\ i' = 1
            /\ j' = 2
            /\ epc' = "pair"
       ELSE /\ epc' = "done"
            /\ UNCHANGED <<it, moved, i, j>>
    /\ UNCHANGED pos
    /\ UNCHANGED <<buildVars, watchVars>>

\* lines 76-90: the body of the inner loop for the pair (i, j), and the step
\* of the two loops to the next pair
PairStep ==
    /\ epc = "pair"
    /\ LET corrected == TooClose(pos[i], pos[j])
           new == Pushed(pos[i], pos[j])
       IN  /\ pos' = IF corrected
                     THEN [pos EXCEPT ![i] = new[1], ![j] = new[2]]
                     ELSE pos
           /\ moved' = MovedAfter(moved, corrected)
    /\ IF j < Len(pos)
       THEN j' = j + 1 /\ UNCHANGED <<i, epc>>
       ELSE IF i + 1 < Len(pos)
            THEN i' = i + 1 /\ j' = i + 2 /\ UNCHANGED epc
            ELSE epc' = "endpass" /\ UNCHANGED <<i, j>>
    /\ UNCHANGED it
    /\ UNCHANGED <<buildVars, watchVars>>

\* lines 91-92
EndPass ==
    /\ epc = "endpass"
    /\ epc' = IF ~moved THEN "done" ELSE "pass"
    /\ UNCHANGED <<pos, it, i, j, moved>>
    /\ UNCHANGED <<buildVars, watchVars>>

EnforceNext ==
    \/ StartPass
    \/ PairStep
    \/ EndPass

EnforceSpec == EnforceInit /\ [][EnforceNext]_vars

\* the numerical tolerance of the claim, in units of 0.001
Tolerance == 2

Pairs == {p \in (DOMAIN pos) \X (DOMAIN pos) : p[1] < p[2]}

\* C5 (as stated): after enforce_min_distance returns, every pair of distinct
\* nodes is at distance at least min_dist less a small tolerance (the maps
\* here have at most a handful of nodes, so the spacing is always possible).
C5_SeparatedOnReturn ==
    epc = "done" =>
        \A p \in Pairs :
            Dist2(pos[p[1]], pos[p[2]]) >= (MinDist - Tolerance) * (MinDist - Tolerance)

\* C5 (amended): when enforce_min_distance returns from a pass that made no
\* correction, every pair of nodes is at distance at least min_dist, except
\* the pairs at the same place (at most 1e-9 apart), which are never moved.
C5_SeparatedWhenSettled ==
    (epc = "done" /\ ~moved) =>
        \A p \in Pairs :
            \/ Dist2(pos[p[1]], pos[p[2]]) >= MinDist * MinDist
            \/ pos[p[1]] = pos[p[2]]

\* three nodes were pushed apart and a later pass found nothing to correct
C5_Witness ==
    /\ epc = "done"
    /\ ~moved
    /\ it >= 2
    /\ Len(pos) = 3
    /\ \A p \in Pairs : Dist2(pos[p[1]], pos[p[2]]) >= MinDist * MinDist

====
